---- MODULE Spec2Model ----
(***************************************************************************)
(* WhisperLink: the in-memory store of one-time secrets kept by the        *)
(* express server (Map `secrets`), its two API handlers, the health        *)
(* handler, the hourly cleanup timer and the signal handlers.              *)
(*                                                                         *)
(* Node runs every handler and timer callback to completion on one thread  *)
(* and none of them awaits, so each is one atomic action.                  *)
(*                                                                         *)
(* Strings.  A content string is the triple <<lead, body, trail>>: `lead`  *)
(* whitespace characters, then `body` non-whitespace characters, then      *)
(* `trail` whitespace characters.  A whitespace-only string is <<n, 0, 0>>.*)
(* Identifiers are TLA+ strings so that id.length is Len(id).              *)
(*                                                                         *)
(* Time is Date.now() in milliseconds.  The clock is observed at multiples *)
(* of the cleanup period; the stretch in which the model creates no secret *)
(* and no secret can have expired is crossed in one step.                  *)
(***************************************************************************)
EXTENDS Integers, Sequences, FiniteSets, TLC

VARIABLES
  secrets,     \* the Map: id -> [content, expiresAt]
  now,         \* Date.now()
  nextSweep,   \* instant at which the setInterval callback is next due
  pc,          \* "running" | "exited"
  issued,      \* ids uuidv4() has returned so far
  res,         \* what the last handler answered (or the last callback logged)
  req,         \* observer: the last request and the store it found
  puts,        \* observer: id -> the create that returned it
  takes,       \* observer: id -> tallies of the retrievals against it
  removed,     \* observer: ids that have left the store
  nPut,        \* observer: number of creates answered 200
  nDel,        \* observer: number of removals the handlers and sweeps performed
  nReads       \* observer: number of retrievals handled

vars == <<secrets, now, nextSweep, pc, issued, res, req, puts, takes, removed,
          nPut, nDel, nReads>>

----------------------------------------------------------------------------
(* Bounds of the model *)

\* the clock stops after this many cleanup periods
MaxTicks == 28
\* how many retrievals are handled in one run
MaxReads == 2

----------------------------------------------------------------------------
(* Configuration *)

SECRET_TTL_HOURS == 24
CLEANUP_INTERVAL_MS == 60 * 60 * 1000
MAX_CONTENT_LENGTH == 100000
ID_LENGTH == 36

TTL_MS == SECRET_TTL_HOURS * 60 * 60 * 1000

MaxTime == MaxTicks * CLEANUP_INTERVAL_MS

\* the model creates a secret only if a sweep can still follow its expiry
CanCreateAt(t) == t + TTL_MS + CLEANUP_INTERVAL_MS < MaxTime

\* the observed instant that follows t
NextInstant(t) ==
  IF CanCreateAt(t + CLEANUP_INTERVAL_MS) \/ t + CLEANUP_INTERVAL_MS >= TTL_MS
  THEN t + CLEANUP_INTERVAL_MS
  ELSE TTL_MS

----------------------------------------------------------------------------
(* Strings *)

StrLen(s) == s[1] + s[2] + s[3]

\* String.prototype.trim
Trim(s) == IF s[2] = 0 THEN <<0, 0, 0>> ELSE <<0, s[2], 0>>

\* the values a request body can carry in `content`
Str(s) == [type |-> "string", str |-> s]
ContentInputs ==
  { [type |-> "undefined", str |-> <<0, 0, 0>>],
    [type |-> "number", str |-> <<0, 0, 0>>],
    Str(<<0, 0, 0>>),
    Str(<<2, 0, 0>>),
    Str(<<1, 1, 1>>),
    Str(<<0, MAX_CONTENT_LENGTH, 0>>),
    Str(<<1, MAX_CONTENT_LENGTH, 0>>),
    Str(<<0, MAX_CONTENT_LENGTH + 1, 0>>) }

\* JavaScript truthiness of such a value (the number is a non-zero one)
Truthy(c) == CASE c.type = "undefined" -> FALSE
               [] c.type = "number" -> TRUE
               [] OTHER -> StrLen(c.str) > 0

----------------------------------------------------------------------------
(* Identifiers *)

\* the identifiers uuidv4() can hand out in the model
Uuids == { "00000000-0000-4000-8000-000000000001",
           "00000000-0000-4000-8000-000000000002" }

\* what a caller can put in the :id path segment
RequestIds == Uuids \cup { "abc" }

\* uuidv4(): a version-4 UUID no earlier call returned
uuidv4Any(used) == Uuids
uuidv4(used) == Uuids \ used

----------------------------------------------------------------------------
(* The Map *)

Undefined == [content |-> <<>>, expiresAt |-> -1]
EmptyMap == [k \in {} |-> Undefined]

MapGet(m, k) == IF k \in DOMAIN m THEN m[k] ELSE Undefined
MapSet(m, k, v) == [x \in DOMAIN m \cup {k} |-> IF x = k THEN v ELSE m[x]]
MapDeleteNoop(m, k) == m
MapDeleteAll(m, k) == [x \in {} |-> m[x]]
MapDelete(m, k) == [x \in DOMAIN m \ {k} |-> m[x]]
MapSize(m) == Cardinality(DOMAIN m)
MapClearNoop(m) == m
MapClear(m) == EmptyMap

----------------------------------------------------------------------------
(* Responses and the observer's record of a request *)

NOT_FOUND == "Secret not found or already accessed"
EXPIRED == "Secret has expired"
CONTENT_REQUIRED == "Secret content is required"
CONTENT_TOO_LARGE == "Secret content is too large (max 100KB)"

NoRes == [op |-> "none", status |-> 0, error |-> "", id |-> "", content |-> <<>>,
          expiresAt |-> -1, activeSecrets |-> -1, cleanedCount |-> -1]
NoReq == [op |-> "none", id |-> "", at |-> -1, pre |-> Undefined, gone |-> FALSE]

----------------------------------------------------------------------------
(* POST /api/secrets *)

\* the two validation checks; "" when the content passes both
ValidationErrorTrimmed(content) ==
  IF ~Truthy(content) \/ content.type # "string" \/ StrLen(Trim(content.str)) = 0
  THEN CONTENT_REQUIRED
  ELSE IF StrLen(Trim(content.str)) > MAX_CONTENT_LENGTH
  THEN CONTENT_TOO_LARGE
  ELSE ""
ValidationError(content) ==
  IF ~Truthy(content) \/ content.type # "string" \/ StrLen(Trim(content.str)) = 0
  THEN CONTENT_REQUIRED
  ELSE IF StrLen(content.str) > MAX_CONTENT_LENGTH
  THEN CONTENT_TOO_LARGE
  ELSE ""

\* the entry the handler stores for a valid content at time t
NewSecretMinutes(content, t) ==
  [content |-> Trim(content.str), expiresAt |-> t + SECRET_TTL_HOURS * 60 * 1000]
NewSecret(content, t) ==
  [content |-> Trim(content.str), expiresAt |-> t + TTL_MS]

CreateRejected(c) ==
  /\ ValidationError(c) # ""
  /\ res' = [NoRes EXCEPT !.op = "create", !.status = 400,
                          !.error = ValidationError(c)]
  /\ req' = [NoReq EXCEPT !.op = "create", !.at = now]
  /\ UNCHANGED <<secrets, issued, puts, removed, nPut>>

CreateStored(c) ==
  /\ ValidationError(c) = ""
  /\ CanCreateAt(now)
  /\ \E id \in uuidv4(issued) :
       LET secret == NewSecret(c, now) IN
       /\ issued' = issued \cup {id}
       /\ secrets' = MapSet(secrets, id, secret)
       /\ res' = [NoRes EXCEPT !.op = "create", !.status = 200, !.id = id,
                               !.expiresAt = secret.expiresAt]
       /\ req' = [NoReq EXCEPT !.op = "create", !.id = id, !.at = now,
                               !.pre = MapGet(secrets, id),
                               !.gone = (id \in removed)]
       /\ puts' = MapSet(puts, id, [input |-> c.str, at |-> now,
                                    expiresAt |-> secret.expiresAt])
       /\ removed' = removed \cup (DOMAIN secrets \ DOMAIN secrets')
       /\ nPut' = nPut + 1

Create(c) ==
  /\ pc = "running"
  /\ CreateRejected(c) \/ CreateStored(c)
  /\ UNCHANGED <<now, nextSweep, pc, takes, nDel, nReads>>

----------------------------------------------------------------------------
(* GET /api/secrets/:id *)

\* the expiration check of the handler
ReadExpiredInclusive(secret, t) == secret.expiresAt <= t
ReadExpiredNever(secret, t) == FALSE
ReadExpired(secret, t) == secret.expiresAt < t

\* the handler as a function of the store, the id and the time:
\* the answer, the store it leaves and the number of delete calls it made
ReadSecretKeep(store, id, t) ==
  LET secret == MapGet(store, id) IN
  IF Len(id) # ID_LENGTH \/ secret = Undefined
  THEN [status |-> 404, error |-> NOT_FOUND, content |-> <<>>,
        store |-> store, deleted |-> 0]
  ELSE IF ReadExpired(secret, t)
  THEN [status |-> 404, error |-> EXPIRED, content |-> <<>>,
        store |-> MapDelete(store, id), deleted |-> 1]
  ELSE [status |-> 200, error |-> "", content |-> secret.content,
        store |-> store, deleted |-> 1]
ReadSecretNoMissCheck(store, id, t) ==
  IF Len(id) # ID_LENGTH
  THEN [status |-> 404, error |-> NOT_FOUND, content |-> <<>>,
        store |-> store, deleted |-> 0]
  ELSE LET secret == MapGet(store, id) IN
       IF secret = Undefined
       THEN [status |-> 500, error |-> "Failed to retrieve secret",
             content |-> <<>>, store |-> store, deleted |-> 0]
       ELSE IF ReadExpired(secret, t)
       THEN [status |-> 404, error |-> EXPIRED, content |-> <<>>,
             store |-> MapDelete(store, id), deleted |-> 1]
       ELSE [status |-> 200, error |-> "", content |-> secret.content,
             store |-> MapDelete(store, id), deleted |-> 1]
ReadSecret(store, id, t) ==
  IF Len(id) # ID_LENGTH
  THEN [status |-> 404, error |-> NOT_FOUND, content |-> <<>>,
        store |-> store, deleted |-> 0]
  ELSE LET secret == MapGet(store, id) IN
       IF secret = Undefined
       THEN [status |-> 404, error |-> NOT_FOUND, content |-> <<>>,
             store |-> store, deleted |-> 0]
       ELSE IF ReadExpired(secret, t)
       THEN [status |-> 404, error |-> EXPIRED, content |-> <<>>,
             store |-> MapDelete(store, id), deleted |-> 1]
       ELSE [status |-> 200, error |-> "", content |-> secret.content,
             store |-> MapDelete(store, id), deleted |-> 1]

B2N(b) == IF b THEN 1 ELSE 0

Retrieve(id) ==
  /\ pc = "running"
  /\ nReads < MaxReads
  /\ LET out == ReadSecret(secrets, id, now)
         early == id \in DOMAIN puts /\ now < puts[id].expiresAt
     IN
     /\ secrets' = out.store
     /\ res' = [NoRes EXCEPT !.op = "read", !.status = out.status,
                             !.error = out.error, !.content = out.content]
     /\ req' = [NoReq EXCEPT !.op = "read", !.id = id, !.at = now,
                             !.pre = MapGet(secrets, id),
                             !.gone = (id \in removed)]
     /\ takes' = IF id \in DOMAIN takes
                 THEN [takes EXCEPT
                        ![id] = [ok |-> @.ok + B2N(out.status = 200),
                                 early |-> @.early + B2N(early),
                                 earlyNf |-> @.earlyNf
                                             + B2N(early /\ out.status = 404)]]
                 ELSE takes
     /\ removed' = removed \cup (DOMAIN secrets \ DOMAIN secrets')
     /\ nDel' = nDel + out.deleted
  /\ nReads' = nReads + 1
  /\ UNCHANGED <<now, nextSweep, pc, issued, puts, nPut>>

----------------------------------------------------------------------------
(* GET /api/health *)

Health ==
  /\ pc = "running"
  /\ res' = [NoRes EXCEPT !.op = "health", !.status = 200,
                          !.activeSecrets = MapSize(secrets)]
  /\ req' = [NoReq EXCEPT !.op = "health", !.at = now]
  /\ UNCHANGED <<secrets, now, nextSweep, pc, issued, puts, takes, removed,
                 nPut, nDel, nReads>>

----------------------------------------------------------------------------
(* The cleanup timer *)

\* the test the cleanup loop applies to each entry
SweepExpiredAll(secret, t) == TRUE
SweepExpiredNone(secret, t) == FALSE
SweepExpiredLate(secret, t) == secret.expiresAt + CLEANUP_INTERVAL_MS < t
SweepExpired(secret, t) == secret.expiresAt < t

\* the for-of loop over secrets.entries(): `todo` are the keys not yet visited
RECURSIVE CleanupLoop(_, _, _, _)
CleanupLoop(store, todo, t, cleanedCount) ==
  IF todo = {}
  THEN [store |-> store, cleanedCount |-> cleanedCount]
  ELSE LET id == CHOOSE k \in todo : TRUE IN
       IF SweepExpired(store[id], t)
       THEN CleanupLoop(MapDelete(store, id), todo \ {id}, t, cleanedCount + 1)
       ELSE CleanupLoop(store, todo \ {id}, t, cleanedCount)

CleanupCountVisited(store, t) ==
  [store |-> CleanupLoop(store, DOMAIN store, t, 0).store,
   cleanedCount |-> MapSize(store)]
CleanupOne(store, t) ==
  LET expired == { id \in DOMAIN store : SweepExpired(store[id], t) } IN
  IF expired = {}
  THEN [store |-> store, cleanedCount |-> 0]
  ELSE [store |-> MapDelete(store, CHOOSE id \in expired : TRUE),
        cleanedCount |-> 1]
Cleanup(store, t) == CleanupLoop(store, DOMAIN store, t, 0)

Sweep ==
  /\ pc = "running"
  /\ now >= nextSweep
  /\ LET out == Cleanup(secrets, now) IN
     /\ secrets' = out.store
     /\ res' = [NoRes EXCEPT !.op = "sweep", !.cleanedCount = out.cleanedCount,
                             !.activeSecrets = MapSize(out.store)]
     /\ nDel' = nDel + out.cleanedCount
  /\ req' = [NoReq EXCEPT !.op = "sweep", !.at = now]
  /\ removed' = removed \cup (DOMAIN secrets \ DOMAIN secrets')
  /\ nextSweep' = now + CLEANUP_INTERVAL_MS
  /\ UNCHANGED <<now, pc, issued, puts, takes, nPut, nReads>>

----------------------------------------------------------------------------
(* The clock *)

\* time passes; the answer of the last handler is no longer the latest event.
\* A due timer callback runs before the clock reaches the next instant.
Tick ==
  /\ pc = "running"
  /\ now < nextSweep
  /\ NextInstant(now) <= MaxTime
  /\ now' = NextInstant(now)
  /\ res' = NoRes
  /\ req' = NoReq
  /\ UNCHANGED <<secrets, nextSweep, pc, issued, puts, takes, removed, nPut,
                 nDel, nReads>>

----------------------------------------------------------------------------
(* SIGTERM / SIGINT *)

ShutdownNoExit(sig) ==
  /\ pc = "running"
  /\ secrets' = MapClear(secrets)
  /\ res' = [NoRes EXCEPT !.op = sig]
  /\ req' = [NoReq EXCEPT !.op = sig, !.at = now]
  /\ UNCHANGED <<now, nextSweep, pc, issued, puts, takes, removed, nPut, nDel,
                 nReads>>
Shutdown(sig) ==
  /\ pc = "running"
  /\ secrets' = MapClear(secrets)
  /\ pc' = "exited"
  /\ res' = [NoRes EXCEPT !.op = sig]
  /\ req' = [NoReq EXCEPT !.op = sig, !.at = now]
  /\ UNCHANGED <<now, nextSweep, issued, puts, takes, removed, nPut, nDel,
                 nReads>>

----------------------------------------------------------------------------

Init ==
  /\ secrets = EmptyMap
  /\ now = 0
  /\ nextSweep = CLEANUP_INTERVAL_MS
  /\ pc = "running"
  /\ issued = {}
  /\ res = NoRes
  /\ req = NoReq
  /\ puts = EmptyMap
  /\ takes = [id \in Uuids |-> [ok |-> 0, early |-> 0, earlyNf |-> 0]]
  /\ removed = {}
  /\ nPut = 0
  /\ nDel = 0
  /\ nReads = 0

Next ==
  \/ \E c \in ContentInputs : Create(c)
  \/ \E id \in RequestIds : Retrieve(id)
  \/ Health
  \/ Sweep
  \/ Tick
  \/ \E sig \in {"SIGTERM", "SIGINT"} : Shutdown(sig)

Spec == Init /\ [][Next]_vars

\* the timer fires when due and the clock keeps running
LiveSpec == Spec /\ WF_vars(Sweep) /\ WF_vars(Tick)

----------------------------------------------------------------------------
(* Claims *)

\* C1: of the retrievals of a created id, at most one is answered with the
\* payload; if any retrieval was issued before the id's expiresAt, exactly one
\* of those got the payload and each of the others got 404; an id no create
\* returned is never answered with a payload.
ExactlyOnce ==
  /\ \A id \in DOMAIN puts :
       /\ takes[id].ok <= 1
       /\ takes[id].early >= 1 =>
            /\ takes[id].ok = 1
            /\ takes[id].earlyNf = takes[id].early - 1
  /\ \A id \in Uuids \ DOMAIN puts : takes[id].ok = 0

\* two retrievals of one id, both before it expired
ExactlyOnceWitness ==
  \E id \in DOMAIN puts : takes[id].early >= 2 /\ takes[id].earlyNf >= 1

\* C2: a retrieval that finds an entry whose expiresAt is strictly before the
\* time of the retrieval is answered 404 and carries no content.
ExpiryEnforced ==
  (req.op = "read" /\ req.pre # Undefined /\ req.pre.expiresAt < req.at)
    => (res.status = 404 /\ res.content = <<>>)

\* a retrieval met an expired entry no sweep had removed
ExpiryEnforcedWitness ==
  /\ req.op = "read"
  /\ req.pre # Undefined
  /\ req.pre.expiresAt < req.at
  /\ res.status = 404

\* C3: an id that has left the store (by a retrieval or by a sweep) is never
\* a key of the store again, and a retrieval of it is answered 404 without
\* content.
NoResurrection ==
  /\ \A id \in removed : id \notin DOMAIN secrets
  /\ (req.op = "read" /\ req.gone) => (res.status = 404 /\ res.content = <<>>)

\* a removed id is retrieved again after a later create
NoResurrectionWitness ==
  /\ req.op = "read"
  /\ req.gone
  /\ \E id \in DOMAIN puts : puts[id].at > puts[req.id].at /\ id \in DOMAIN secrets

\* C4: the content a retrieval returns equals the content submitted to the
\* create that returned the id.
RoundTripVerbatim ==
  (req.op = "read" /\ res.status = 200) => res.content = puts[req.id].input

\* C5: every 404 answer of a retrieval carries the same message.
UniformNotFound ==
  (req.op = "read" /\ res.status = 404) => res.error = NOT_FOUND

\* C6: every id that is a key of the store is later not a key of the store.
EventuallyRemoved ==
  \A id \in Uuids : (id \in DOMAIN secrets) ~> (id \notin DOMAIN secrets)

\* a sweep removed an entry nobody retrieved
EventuallyRemovedWitness ==
  /\ res.op = "sweep"
  /\ res.cleanedCount > 0
  /\ \E id \in removed : takes[id].ok = 0 /\ takes[id].early = 0

\* C7 as stated: right after a sweep at time t no entry with expiresAt <= t
\* is in the store.
SweepCompleteInclusive ==
  req.op = "sweep" => \A id \in DOMAIN secrets : secrets[id].expiresAt > req.at

\* C7 as amended: right after a sweep at time t no entry with expiresAt < t
\* is in the store.
SweepComplete ==
  req.op = "sweep" => \A id \in DOMAIN secrets : secrets[id].expiresAt >= req.at

\* a sweep removed an entry and kept one whose expiresAt is the sweep's time
SweepCompleteWitness ==
  /\ req.op = "sweep"
  /\ res.cleanedCount > 0
  /\ \E id \in DOMAIN secrets : secrets[id].expiresAt = req.at

\* C8: a sweep at time t keeps every entry whose expiresAt > t, with the same
\* content and expiresAt.
SweepSound ==
  [][Sweep => \A id \in DOMAIN secrets :
                secrets[id].expiresAt > now
                  => (id \in DOMAIN secrets' /\ secrets'[id] = secrets[id])]_vars

\* a sweep removed an entry and kept one that expires later than the sweep
SweepSoundWitness ==
  /\ req.op = "sweep"
  /\ res.cleanedCount > 0
  /\ \E id \in DOMAIN secrets : secrets[id].expiresAt > req.at

\* C9 as stated: a retrieval that finds an entry with expiresAt <= now removes
\* it and answers 404.
ReadBoundaryInclusive ==
  (req.op = "read" /\ req.pre # Undefined /\ req.pre.expiresAt <= req.at)
    => (res.status = 404 /\ req.id \notin DOMAIN secrets)

\* C9 as amended: a retrieval that finds an entry removes it; it answers 404
\* when expiresAt < now, and at now = expiresAt it answers with the payload.
ReadBoundary ==
  (req.op = "read" /\ req.pre # Undefined) =>
    /\ req.id \notin DOMAIN secrets
    /\ req.pre.expiresAt < req.at => (res.status = 404 /\ res.content = <<>>)
    /\ req.pre.expiresAt = req.at
         => (res.status = 200 /\ res.content = req.pre.content)

\* a retrieval at the very instant the entry expires
ReadBoundaryWitness ==
  /\ req.op = "read"
  /\ req.pre # Undefined
  /\ req.pre.expiresAt = req.at
  /\ res.status = 200

\* C10: while the process runs, the size of the store is the number of
\* creates answered 200 minus the number of removals by retrievals and
\* sweeps, and the health handler reports that number.
SizeAccounting ==
  /\ pc = "running" => MapSize(secrets) = nPut - nDel
  /\ res.op = "health" => res.activeSecrets = nPut - nDel

\* the health handler answers after creates, a retrieval and a sweep removal
SizeAccountingWitness ==
  /\ res.op = "health"
  /\ nPut >= 2
  /\ nDel >= 2
  /\ nReads = 1
  /\ res.activeSecrets = 0

\* C11: a create answered 200 inserts under an id that is not a key of the
\* store, the store grows by exactly one entry, and every key of the store
\* maps to the entry of the one create that returned it.
CreateNeverOverwrites ==
  [][(\E c \in ContentInputs : Create(c)) /\ res'.status = 200
       => /\ res'.id \notin DOMAIN secrets
          /\ MapSize(secrets') = MapSize(secrets) + 1
          /\ \A id \in DOMAIN secrets' :
               /\ id \in DOMAIN puts'
               /\ secrets'[id].expiresAt = puts'[id].expiresAt]_vars

\* a create succeeded while another secret was live
CreateNeverOverwritesWitness ==
  /\ req.op = "create"
  /\ res.status = 200
  /\ MapSize(secrets) = 2

\* C12: a create whose content is invalid (not a string or missing, empty or
\* whitespace-only, or longer than 100,000 characters) is answered 400 with
\* an error message and leaves the store as it was.
RejectedCreateInsertsNothing ==
  [][\A c \in ContentInputs :
       LET invalid == \/ c.type # "string"
                      \/ c.str[2] = 0
                      \/ c.str[1] + c.str[2] + c.str[3] > 100000
       IN (Create(c) /\ invalid)
            => (res'.status = 400 /\ res'.error # "" /\ secrets' = secrets)]_vars

\* a too-large content was rejected while a secret was stored
RejectedCreateInsertsNothingWitness ==
  /\ req.op = "create"
  /\ res.status = 400
  /\ res.error = CONTENT_TOO_LARGE
  /\ MapSize(secrets) >= 1

\* C13: when the process has exited after SIGTERM or SIGINT the store holds
\* no entry.
ClearedAtExit ==
  pc = "exited" => DOMAIN secrets = {}

\* the signal arrived while a created secret was still stored
ClearedAtExitWitness ==
  /\ pc = "exited"
  /\ res.op \in {"SIGTERM", "SIGINT"}
  /\ nPut >= 1
  /\ nDel = 0

\* C14: a create answered 200 at time t stores expiresAt = t + 24 h and
\* returns that same value; every stored entry expires 24 h after its create.
ExpiresAfterTtl ==
  /\ (req.op = "create" /\ res.status = 200) =>
       /\ res.expiresAt = req.at + 24 * 60 * 60 * 1000
       /\ res.id \in DOMAIN secrets
       /\ secrets[res.id].expiresAt = res.expiresAt
  /\ \A id \in DOMAIN secrets :
       secrets[id].expiresAt = puts[id].at + 24 * 60 * 60 * 1000

\* a create was answered at an instant later than process start
ExpiresAfterTtlWitness ==
  /\ req.op = "create"
  /\ res.status = 200
  /\ req.at > 0
  /\ res.expiresAt > 24 * 60 * 60 * 1000

\* C15: a retrieval of an id that is a key of the store when the handler
\* starts leaves the store without that key, whether it answers with the
\* payload or finds the entry expired; the handler is one step.
GoneOnReturn ==
  [][\A id \in RequestIds :
       (Retrieve(id) /\ id \in DOMAIN secrets)
         => (id \notin DOMAIN secrets' /\ res'.status \in {200, 404})]_vars

\* a retrieval found its entry expired and removed it
GoneOnReturnWitness ==
  /\ req.op = "read"
  /\ req.pre # Undefined
  /\ res.error = EXPIRED
  /\ req.id \notin DOMAIN secrets

\* C16: a retrieval of an id that is not a key of the store (never created,
\* already removed, or not 36 characters long) is answered 404 without
\* content and leaves the store as it was.
MissLeavesStore ==
  [][\A id \in RequestIds :
       (Retrieve(id) /\ id \notin DOMAIN secrets)
         => (res'.status = 404 /\ res'.content = <<>> /\ secrets' = secrets)]_vars

\* an id of the wrong length was retrieved while a secret was stored
MissLeavesStoreWitness ==
  /\ req.op = "read"
  /\ Len(req.id) # 36
  /\ res.status = 404
  /\ MapSize(secrets) >= 1

\* C17: a retrieval of id X leaves every entry under another id present and
\* unchanged, and a create leaves every entry stored before it present and
\* unchanged.
OtherIdsUntouched ==
  [][/\ \A x \in RequestIds :
          Retrieve(x) => \A id \in DOMAIN secrets \ {x} :
                           id \in DOMAIN secrets' /\ secrets'[id] = secrets[id]
     /\ \A c \in ContentInputs :
          Create(c) => \A id \in DOMAIN secrets :
                         id \in DOMAIN secrets' /\ secrets'[id] = secrets[id]]_vars

\* a retrieval returned a payload while another secret stayed stored
OtherIdsUntouchedWitness ==
  /\ req.op = "read"
  /\ res.status = 200
  /\ MapSize(secrets) >= 1

\* C18: an entry that is in the store before and after a step is the same
\* entry; a step only adds whole entries or removes whole entries.
EntriesImmutable ==
  [][\A id \in DOMAIN secrets \cap DOMAIN secrets' :
       secrets'[id] = secrets[id]]_vars

\* an entry is still stored, as created, at the instant it expires
EntriesImmutableWitness ==
  \E id \in DOMAIN secrets :
    /\ now = puts[id].expiresAt
    /\ secrets[id].expiresAt = puts[id].expiresAt
    /\ nPut = 2

\* C19: the count a sweep reports is the number of entries that were in the
\* store before it and are not after it, and none of them had left the store
\* before.
SweepCountsRemovals ==
  [][Sweep => /\ DOMAIN secrets' \subseteq DOMAIN secrets
              /\ res'.cleanedCount
                   = Cardinality(DOMAIN secrets \ DOMAIN secrets')
              /\ (DOMAIN secrets \ DOMAIN secrets') \cap removed = {}]_vars

\* a sweep right after a retrieval that removed the expired entry counts 0
SweepCountsRemovalsWitness ==
  /\ res.op = "sweep"
  /\ res.cleanedCount = 0
  /\ \E id \in removed :
       /\ takes[id].ok = 0
       /\ req.at = puts[id].expiresAt + CLEANUP_INTERVAL_MS

\* C20: a second sweep at the time of the sweep that just ran removes no
\* entry and leaves the store as it is.
SweepIdempotent ==
  req.op = "sweep" =>
    /\ Cleanup(secrets, req.at).cleanedCount = 0
    /\ Cleanup(secrets, req.at).store = secrets

\* a sweep removed an entry and left another in the store
SweepIdempotentWitness ==
  /\ req.op = "sweep"
  /\ res.cleanedCount >= 1
  /\ MapSize(secrets) >= 1

====
